---- MODULE Spec2Model ----
(***************************************************************************)
(* State-management core of the pattern-driven todo application:           *)
(* TodoItem (value object), TodoList (singleton store with observer        *)
(* mixin), CE (command executor), LocalStorage (persistence adapter) and   *)
(* renderTodoList (presentation adapter).                                  *)
(*                                                                         *)
(* A JavaScript Set keeps insertion order and compares objects by          *)
(* identity, so TodoList.#data and the mixin's observers are sequences;    *)
(* every position of data is a distinct object.                            *)
(***************************************************************************)
EXTENDS Integers, Sequences, FiniteSets, TLC

\* ---------------------------------------------------------------- bounds
MaxLen == 2          \* add is explored while the store holds fewer entries
MaxList == 2         \* longest list handed to replaceList
MaxInstances == 3    \* constructions counted before the model stops counting
MaxOps == 3          \* operations a tally follows

Texts == {"a", "b"}  \* todo texts explored

\* ---------------------------------------------------------------- values
NULL == [type |-> "null"]

TodoItem(text) == [type |-> "TodoItem", text |-> text]

\* a plain record as produced by JSON.parse or handed in by a caller
PlainRecord(text) == [type |-> "Object", text |-> text]

\* a record carrying a field besides text
ExtraRecord(text) == [type |-> "Object", text |-> text, completed |-> TRUE]

\* results of a call
RTrue == "true"
RFalse == "false"
RUndefined == "undefined"
RThrow == "throw"

\* the callbacks that get registered with the mixin
SAVE == "LocalStorage.save"
RENDER == "renderTodoList"
SPY == "recordingObserver"      \* a callback that only looks at the store
BAD == "throwingObserver"       \* a callback that raises an error
Callbacks == {SAVE, SPY, BAD}

\* callbacks that change the observer set while a pass is running
SUB == "registeringObserver"     \* calls addObserver(SPY)
UNSUB == "unregisteringObserver" \* calls removeObserver(SPY)
MixinCallbacks == {SAVE, SPY, SUB, UNSUB}

COMMANDS == [ADD_TODO |-> "add", REMOVE_TODO_BY_TEXT |-> "deleteByText",
             UPDATE_TODO |-> "UPDATE_TODO", CLEAR_TODO |-> "CLEAR_TODO"]

Command(type, payload) == [type |-> type, payload |-> payload]

StorageKey == "todoList"

\* localStorage.getItem of a missing key
NoBlob == <<"<missing>">>

VARIABLES
    data,        \* TodoList.#data, in insertion order
    observers,   \* the mixin's observer Set, in insertion order
    storage,     \* localStorage["todoList"]: a token sequence, or NoBlob
    rendered,    \* children of DOM.todoList
    dom,         \* TRUE once DOM.todoList has been cached
    call,        \* the last operation: [op, via, arg]
    result,      \* what it returned, or RThrow
    prev,        \* data when the last operation started
    prevObs,     \* observers when the last operation started
    log,         \* observer invocations made by the last operation
    instance,    \* TodoList.#instance
    created,     \* how many TodoList objects have been constructed
    held,        \* the array a caller got from TodoList.items and kept
    invoked,     \* how many times LocalStorage.save has been called
    counted,     \* how many operations the tally has taken in
    input        \* DOM.todoInput.value, as its characters

vars == <<data, observers, storage, rendered, dom, call, result, prev,
          prevObs, log, instance, created, held, invoked, counted, input>>

\* ------------------------------------------------------------- TodoItem
\* comparing by identity: two separately held objects are never the same
equals_identity(this, other) == FALSE

\* comparing the two objects themselves
equals_sameObject(this, other) == this = other

equals(this, other) == this.text = other.text

\* ----------------------------------------------------------------- JSON
\* JSON.stringify of an array of TodoItem / null, as a token sequence
RECURSIVE stringifyElems(_, _)
stringifyElems(arr, i) ==
    IF i > Len(arr) THEN <<>>
    ELSE (IF i > 1 THEN <<",">> ELSE <<>>)
         \o (IF arr[i] = NULL THEN <<"null">>
             ELSE <<"{\"text\":", arr[i].text, "}">>)
         \o stringifyElems(arr, i + 1)

JSON_stringify(arr) == <<"[">> \o stringifyElems(arr, 1) \o <<"]">>

\* one element starting at token i: [ok, value, next]
parseValue(toks, i) ==
    IF i > Len(toks) THEN [ok |-> FALSE, value |-> NULL, next |-> i]
    ELSE IF toks[i] = "null" THEN [ok |-> TRUE, value |-> NULL, next |-> i + 1]
    ELSE IF /\ toks[i] = "{\"text\":"
            /\ i + 2 <= Len(toks)
            /\ toks[i + 1] \in Texts \cup {""}
            /\ toks[i + 2] = "}"
         THEN [ok |-> TRUE, value |-> PlainRecord(toks[i + 1]), next |-> i + 3]
    ELSE [ok |-> FALSE, value |-> NULL, next |-> i]

\* the elements of an array after its "[": [ok, value]
RECURSIVE parseElems(_, _, _)
parseElems(toks, i, acc) ==
    LET v == parseValue(toks, i) IN
    IF ~v.ok THEN [ok |-> FALSE, value |-> <<>>]
    ELSE IF v.next = Len(toks) /\ toks[v.next] = "]"
         THEN [ok |-> TRUE, value |-> Append(acc, v.value)]
    ELSE IF v.next < Len(toks) /\ toks[v.next] = ","
         THEN parseElems(toks, v.next + 1, Append(acc, v.value))
    ELSE [ok |-> FALSE, value |-> <<>>]

\* JSON.parse: [ok, isArray, value]; ~ok is a SyntaxError
JSON_parse(toks) ==
    IF toks = <<"[", "]">> THEN [ok |-> TRUE, isArray |-> TRUE, value |-> <<>>]
    ELSE IF Len(toks) >= 1 /\ toks[1] = "["
         THEN LET r == parseElems(toks, 2, <<>>) IN
              [ok |-> r.ok, isArray |-> TRUE, value |-> r.value]
    ELSE LET v == parseValue(toks, 1) IN
         [ok |-> v.ok /\ v.next = Len(toks) + 1, isArray |-> FALSE,
          value |-> v.value]

\* ---------------------------------------------------------------- world
\* the mutable program state an operation works on
World(d, o, s, r, m) ==
    [data |-> d, observers |-> o, storage |-> s, rendered |-> r, dom |-> m]

\* TodoList.items: a fresh array copy of #data
items(w) == [i \in 1..Len(w.data) |-> w.data[i]]

\* an array object: backing says whether it is the store's own collection
\* (writes to it are writes to #data) or an object of its own
ArrayObject(backing, elems) == [backing |-> backing, elems |-> elems]

\* the getter handing out the collection the store works on
TodoList_items_backing(w) == ArrayObject(TRUE, items(w))

\* get items() { return [...this.#data]; }
TodoList_items(w) == ArrayObject(FALSE, items(w))

\* ------------------------------------------------------------ observers
\* writing only the newest entry (a diff) instead of the snapshot
LocalStorage_save_diff(w) ==
    [w |-> [w EXCEPT !.storage =
                JSON_stringify(IF w.data = <<>> THEN <<>>
                               ELSE <<w.data[Len(w.data)]>>)],
     threw |-> FALSE]

LocalStorage_save(w) ==
    [w |-> [w EXCEPT !.storage = JSON_stringify(items(w))], threw |-> FALSE]

\* the <li> built for one item
Li(item) == [span |-> item.text, deleteBtn |-> item.text]

RECURSIVE renderFrom(_, _, _)
renderFrom(w, arr, i) ==
    IF i > Len(arr) THEN [w |-> w, threw |-> FALSE]
    ELSE IF arr[i] = NULL THEN [w |-> w, threw |-> TRUE]
    ELSE renderFrom([w EXCEPT !.rendered = Append(@, Li(arr[i]))], arr, i + 1)

renderTodoList(w) ==
    IF ~w.dom THEN [w |-> w, threw |-> TRUE]
    ELSE renderFrom([w EXCEPT !.rendered = <<>>], items(w), 1)

\* ---------------------------------------------------------------- mixin
\* an array push: no check for an earlier registration
addObserver_push(w, obs) == [w EXCEPT !.observers = Append(@, obs)]

addObserver(w, obs) ==
    IF \E i \in 1..Len(w.observers) : w.observers[i] = obs THEN w
    ELSE [w EXCEPT !.observers = Append(@, obs)]

\* dropping every observer instead of the one given
removeObserver_clear(w, obs) == [w EXCEPT !.observers = <<>>]

removeObserver(w, obs) ==
    [w EXCEPT !.observers = SelectSeq(@, LAMBDA o : o /= obs)]

\* a renderTodoList that empties the store once it has drawn it
invoke_reentrant(obs, w) ==
    CASE obs = SAVE -> LocalStorage_save(w)
      [] obs = RENDER -> LET r == renderTodoList(w) IN
                         [w |-> [r.w EXCEPT !.data = <<>>], threw |-> r.threw]
      [] OTHER -> [w |-> w, threw |-> FALSE]

\* invoking one registered callback
invoke(obs, w) ==
    CASE obs = SAVE -> LocalStorage_save(w)
      [] obs = RENDER -> renderTodoList(w)
      [] obs = SPY -> [w |-> w, threw |-> FALSE]
      [] obs = BAD -> [w |-> w, threw |-> TRUE]
      [] obs = SUB -> [w |-> addObserver(w, SPY), threw |-> FALSE]
      [] obs = UNSUB -> [w |-> removeObserver(w, SPY), threw |-> FALSE]

\* Set.prototype.forEach walks the live Set: an entry deleted before its turn
\* is skipped and an entry added during the walk is visited at the end. After
\* the callback at position i, the walk continues behind the entries up to i
\* that are still in the Set.
NextPosition(before, after, i) ==
    1 + Cardinality({j \in 1..i : \E k \in 1..Len(after) : after[k] = before[j]})

\* observers.forEach((obs) => obs()): [w, threw, log]
RECURSIVE notifyFrom(_, _, _)
notifyFrom(w, i, lg) ==
    IF i > Len(w.observers) THEN [w |-> w, threw |-> FALSE, log |-> lg]
    ELSE LET obs == w.observers[i]
             r == invoke(obs, w)
             entry == [obs |-> obs, seen |-> items(w), threw |-> r.threw]
         IN IF r.threw
            THEN [w |-> r.w, threw |-> TRUE, log |-> Append(lg, entry)]
            ELSE notifyFrom(r.w, NextPosition(w.observers, r.w.observers, i),
                            Append(lg, entry))

notify(w) == notifyFrom(w, 1, <<>>)

\* ------------------------------------------------------------- TodoList
\* static #instance = null
NoInstance == [type |-> "null"]

TheInstance == [type |-> "TodoList"]

\* a constructor without the guard
TodoList_constructor_unguarded(inst) == [threw |-> FALSE]

\* constructor(): throws once TodoList.instance is set
TodoList_constructor(inst) == [threw |-> inst /= NoInstance]

\* static #instance = null; static { TodoList.#instance = new TodoList(); }
ClassInit ==
    LET c == TodoList_constructor(NoInstance) IN
    IF c.threw THEN [instance |-> NoInstance, created |-> 0]
    ELSE [instance |-> TheInstance, created |-> 1]

\* [...this.#data].some((todo) => todo.equals(item))
RECURSIVE someEquals(_, _, _)
someEquals(d, i, item) ==
    IF i > Len(d) THEN RFalse
    ELSE IF d[i] = NULL \/ item = NULL THEN RThrow
    ELSE IF equals(d[i], item) THEN RTrue
    ELSE someEquals(d, i + 1, item)

exists(w, item) == someEquals(w.data, 1, item)

\* [...this.#data].find((item) => item.text === text): [threw, index]
RECURSIVE findFrom(_, _, _)
findFrom(d, i, text) ==
    IF i > Len(d) THEN [threw |-> FALSE, index |-> 0]
    ELSE IF d[i] = NULL THEN [threw |-> TRUE, index |-> 0]
    ELSE IF d[i].text = text THEN [threw |-> FALSE, index |-> i]
    ELSE findFrom(d, i + 1, text)

findByText(w, text) == findFrom(w.data, 1, text)

\* every operation yields [w, result, log]
Outcome(w, res, lg) == [w |-> w, result |-> res, log |-> lg]

\* exists(item) as a call on the store: the answer, no effect, no pass
TodoList_exists(w, item) == Outcome(w, exists(w, item), <<>>)

\* what findByText returns: the entry found, or undefined
Found(entry) == [found |-> TRUE, entry |-> entry]
NotFound == [found |-> FALSE, entry |-> NULL]

\* a lookup that runs a notification pass before it answers
TodoList_findByText_notifying(w, text) ==
    LET f == findByText(w, text)
        n == notify(w)
    IN IF f.threw \/ n.threw THEN Outcome(n.w, RThrow, n.log)
       ELSE Outcome(n.w, IF f.index = 0 THEN NotFound
                         ELSE Found(w.data[f.index]), n.log)

\* findByText(text) as a call on the store
TodoList_findByText(w, text) ==
    LET f == findByText(w, text) IN
    IF f.threw THEN Outcome(w, RThrow, <<>>)
    ELSE Outcome(w, IF f.index = 0 THEN NotFound ELSE Found(w.data[f.index]),
                 <<>>)

\* notifying before the insertion instead of after it
add_notifyFirst(w, item) ==
    LET ex == exists(w, item) IN
    IF ex = RThrow THEN Outcome(w, RThrow, <<>>)
    ELSE IF ex = RTrue THEN Outcome(w, RFalse, <<>>)
    ELSE LET n == notify(w) IN
         Outcome([n.w EXCEPT !.data = Append(@, item)],
                 IF n.threw THEN RThrow ELSE RTrue, n.log)

add(w, item) ==
    LET ex == exists(w, item) IN
    IF ex = RThrow THEN Outcome(w, RThrow, <<>>)
    ELSE IF ex = RTrue THEN Outcome(w, RFalse, <<>>)
    ELSE LET n == notify([w EXCEPT !.data = Append(@, item)]) IN
         Outcome(n.w, IF n.threw THEN RThrow ELSE RTrue, n.log)

RemoveAt(s, i) == [j \in 1..(Len(s) - 1) |-> IF j < i THEN s[j] ELSE s[j + 1]]

deleteByText(w, text) ==
    LET f == findByText(w, text) IN
    IF f.threw THEN Outcome(w, RThrow, <<>>)
    ELSE IF f.index = 0 THEN Outcome(w, RFalse, <<>>)
    ELSE LET n == notify([w EXCEPT !.data = RemoveAt(@, f.index)]) IN
         Outcome(n.w, IF n.threw THEN RThrow ELSE RTrue, n.log)

\* items.forEach((item) => this.#data.add(new TodoItem(item.text, ...)))
RECURSIVE fillFrom(_, _, _)
fillFrom(w, list, i) ==
    IF i > Len(list) THEN [w |-> w, threw |-> FALSE]
    ELSE IF list[i] = NULL THEN [w |-> w, threw |-> TRUE]
    ELSE fillFrom([w EXCEPT !.data = Append(@, TodoItem(list[i].text))],
                  list, i + 1)

\* filling without the clear
replaceList_noClear(w, list) ==
    IF ~list.isArray THEN Outcome(w, RThrow, <<>>)
    ELSE LET f == fillFrom(w, list.value, 1) IN
         IF f.threw THEN Outcome(f.w, RThrow, <<>>)
         ELSE LET n == notify(f.w) IN
              Outcome(n.w, IF n.threw THEN RThrow ELSE RUndefined, n.log)

\* list is [isArray, value]; a value that is no array and not iterable
\* makes [...list] throw after the clear
replaceList(w, list) ==
    LET cleared == [w EXCEPT !.data = <<>>] IN
    IF ~list.isArray THEN Outcome(cleared, RThrow, <<>>)
    ELSE LET f == fillFrom(cleared, list.value, 1) IN
         IF f.threw THEN Outcome(f.w, RThrow, <<>>)
         ELSE LET n == notify(f.w) IN
              Outcome(n.w, IF n.threw THEN RThrow ELSE RUndefined, n.log)

ArrayArg(seq) == [isArray |-> TRUE, value |-> seq]

\* --------------------------------------------------------- LocalStorage
\* load without its if (data): JSON.parse(null) is null, handed on
LocalStorage_load_unchecked(w) ==
    LET p == IF w.storage = NoBlob
             THEN [ok |-> TRUE, isArray |-> FALSE, value |-> NULL]
             ELSE JSON_parse(w.storage)
    IN IF ~p.ok THEN Outcome(w, RThrow, <<>>)
       ELSE replaceList(w, [isArray |-> p.isArray, value |-> p.value])

LocalStorage_load(w) ==
    IF w.storage = NoBlob \/ w.storage = <<>> THEN Outcome(w, RUndefined, <<>>)
    ELSE LET p == JSON_parse(w.storage) IN
         IF ~p.ok THEN Outcome(w, RThrow, <<>>)
         ELSE replaceList(w, [isArray |-> p.isArray, value |-> p.value])

\* ------------------------------------------------------------------- CE
\* the add case without its return: the switch ends and undefined comes back
CE_execute_noReturn(w, command) ==
    CASE command.type = COMMANDS.ADD_TODO ->
            [add(w, command.payload) EXCEPT !.result =
                IF @ = RThrow THEN RThrow ELSE RUndefined]
      [] command.type = COMMANDS.REMOVE_TODO_BY_TEXT ->
            deleteByText(w, command.payload)
      [] OTHER -> Outcome(w, RUndefined, <<>>)

\* CLEAR_TODO given a meaning: it empties the store
CE_execute_clear(w, command) ==
    CASE command.type = COMMANDS.ADD_TODO -> add(w, command.payload)
      [] command.type = COMMANDS.REMOVE_TODO_BY_TEXT ->
            deleteByText(w, command.payload)
      [] command.type = COMMANDS.CLEAR_TODO ->
            replaceList(w, [isArray |-> TRUE, value |-> <<>>])
      [] OTHER -> Outcome(w, RUndefined, <<>>)

CE_execute(w, command) ==
    CASE command.type = COMMANDS.ADD_TODO -> add(w, command.payload)
      [] command.type = COMMANDS.REMOVE_TODO_BY_TEXT ->
            deleteByText(w, command.payload)
      [] OTHER -> Outcome(w, RUndefined, <<>>)

\* ----------------------------------------------------------------- Init
\* what may be persisted from an earlier session
WellFormedBlobs == {JSON_stringify(<<TodoItem("a")>>)}

\* not JSON, JSON that is no array, and an array with a non-record element
MalformedBlobs == {<<"{oops">>, <<"{\"text\":", "a", "}">>, <<"[", "null", "]">>}

InitBlobs == {NoBlob} \cup WellFormedBlobs \cup MalformedBlobs

\* module load with one of blobs in localStorage
InitWith(blobs) ==
    /\ data = <<>>
    /\ observers = <<SAVE>>
    /\ storage \in blobs
    /\ rendered = <<>>
    /\ dom = FALSE
    /\ call = [op |-> "init", via |-> "init", arg |-> NULL]
    /\ result = RUndefined
    /\ prev = <<>>
    /\ prevObs = <<SAVE>>
    /\ log = <<>>
    /\ instance = ClassInit.instance
    /\ created = ClassInit.created
    /\ held = ArrayObject(FALSE, <<>>)
    /\ invoked = 0
    /\ counted = 0
    /\ input = <<>>

Init == InitWith(InitBlobs)

Now == World(data, observers, storage, rendered, dom)

\* what a kept array shows once the store holds d
Track(h, d) == IF h.backing THEN ArrayObject(TRUE, d) ELSE h

\* the program state after an operation with outcome o
Base(o, op, via, arg) ==
    /\ data' = o.w.data
    /\ observers' = o.w.observers
    /\ storage' = o.w.storage
    /\ rendered' = o.w.rendered
    /\ dom' = o.w.dom
    /\ call' = [op |-> op, via |-> via, arg |-> arg]
    /\ result' = o.result
    /\ prev' = data
    /\ prevObs' = observers
    /\ log' = o.log

\* an operation of the store, the executor or the adapters
Commit(o, op, via, arg) ==
    /\ Base(o, op, via, arg)
    /\ held' = Track(held, o.w.data)
    /\ UNCHANGED <<instance, created, invoked, counted, input>>

Items == {TodoItem(t) : t \in Texts}
InputRecords == {PlainRecord("a"), ExtraRecord("b"), NULL}

RECURSIVE SeqsUpTo(_, _)
SeqsUpTo(S, n) ==
    IF n = 0 THEN {<<>>}
    ELSE LET shorter == SeqsUpTo(S, n - 1) IN
         shorter \cup {Append(s, x) : s \in {q \in shorter : Len(q) = n - 1}, x \in S}

Add ==
    /\ Len(data) < MaxLen
    /\ \/ \E item \in Items : Commit(add(Now, item), "add", "direct", item)
       \/ Commit(add(Now, NULL), "add", "direct", NULL)

DeleteByText ==
    \E text \in Texts :
        Commit(deleteByText(Now, text), "deleteByText", "direct", text)

ReplaceList ==
    \E list \in SeqsUpTo(InputRecords, MaxList) :
        Commit(replaceList(Now, ArrayArg(list)), "replaceList", "direct", list)

Load == Commit(LocalStorage_load(Now), "load", "direct", storage)

ExecuteAdd ==
    /\ Len(data) < MaxLen
    /\ \E item \in Items \cup {NULL} :
        Commit(CE_execute(Now, Command(COMMANDS.ADD_TODO, item)),
               "add", "CE", item)

ExecuteRemove ==
    \E text \in Texts :
        Commit(CE_execute(Now, Command(COMMANDS.REMOVE_TODO_BY_TEXT, text)),
               "deleteByText", "CE", text)

ExecuteOther ==
    \E type \in {COMMANDS.UPDATE_TODO, COMMANDS.CLEAR_TODO, "unknown"} :
        Commit(CE_execute(Now, Command(type, NULL)), "noop", "CE", type)

AddObserver ==
    \E obs \in Callbacks :
        Commit(Outcome(addObserver(Now, obs), RUndefined, <<>>),
               "addObserver", "direct", obs)

RemoveObserver ==
    \E obs \in Callbacks :
        Commit(Outcome(removeObserver(Now, obs), RUndefined, <<>>),
               "removeObserver", "direct", obs)

AddMixinObserver ==
    \E obs \in MixinCallbacks :
        Commit(Outcome(addObserver(Now, obs), RUndefined, <<>>),
               "addObserver", "direct", obs)

RemoveMixinObserver ==
    \E obs \in MixinCallbacks :
        Commit(Outcome(removeObserver(Now, obs), RUndefined, <<>>),
               "removeObserver", "direct", obs)

\* new TodoList() by any code after the class has been initialized; the
\* object is never assigned to the private #instance
NewTodoList ==
    LET c == TodoList_constructor(instance) IN
    /\ created < MaxInstances
    /\ created' = IF c.threw THEN created ELSE created + 1
    /\ call' = [op |-> "new TodoList", via |-> "direct", arg |-> NULL]
    /\ result' = IF c.threw THEN RThrow ELSE RUndefined
    /\ prev' = data
    /\ prevObs' = observers
    /\ log' = <<>>
    /\ UNCHANGED <<data, observers, storage, rendered, dom, instance, held,
                   invoked, counted, input>>

\* startup that loads before renderTodoList is registered
DOMContentLoaded_loadFirst ==
    /\ ~dom
    /\ LET cached == [Now EXCEPT !.dom = TRUE]
           o == LocalStorage_load(cached)
       IN Commit([o EXCEPT !.w = addObserver(@, RENDER)],
                 "load", "startup", storage)

\* the two DOMContentLoaded handlers of app.js, in registration order
DOMContentLoaded ==
    /\ ~dom
    /\ LET cached == [Now EXCEPT !.dom = TRUE]
           subscribed == addObserver(cached, RENDER)
       IN Commit(LocalStorage_load(subscribed), "load", "startup", storage)

Next ==
    \/ Add
    \/ DeleteByText
    \/ ReplaceList
    \/ Load
    \/ ExecuteAdd
    \/ ExecuteRemove
    \/ ExecuteOther
    \/ AddObserver
    \/ RemoveObserver
    \/ NewTodoList

Spec == Init /\ [][Next]_vars

\* the store with observers that register and unregister during a pass
NextMixin ==
    \/ Add
    \/ DeleteByText
    \/ AddMixinObserver
    \/ RemoveMixinObserver

SpecMixin == Init /\ [][NextMixin]_vars

\* ------------------------------------------------------ the page (app.js)
\* String.prototype.trim on a string given as its characters
RECURSIVE trimStart(_)
trimStart(str) ==
    IF str /= <<>> /\ Head(str) = " " THEN trimStart(Tail(str)) ELSE str

RECURSIVE trimEnd(_)
trimEnd(str) ==
    IF str /= <<>> /\ str[Len(str)] = " "
    THEN trimEnd(SubSeq(str, 1, Len(str) - 1)) ELSE str

trim(str) == trimEnd(trimStart(str))

\* what the user may have typed into #todo-input
InputValues == {<<>>, <<" ">>, <<"a">>, <<" ", "a", " ">>, <<"b", " ">>}

\* the user edits #todo-input; no code of the page runs
TypeInput ==
    /\ \E value \in InputValues \ {input} : input' = value
    /\ UNCHANGED <<data, observers, storage, rendered, dom, call, result,
                   prev, prevObs, log, instance, created, held, invoked,
                   counted>>

\* click on #add-btn; the listener exists once DOMContentLoaded has run.
\* An error raised by CE.execute leaves the handler before the input is
\* cleared.
ClickAdd ==
    LET text == trim(input) IN
    /\ dom
    /\ Len(data) < MaxLen
    /\ IF text /= <<>>
       THEN LET o == CE_execute(Now, Command(COMMANDS.ADD_TODO,
                                             TodoItem(text[1])))
            IN /\ Base(o, "add", "click", TodoItem(text[1]))
               /\ input' = IF o.result = RThrow THEN input ELSE <<>>
       ELSE /\ Base(Outcome(Now, RUndefined, <<>>), "noop", "click", input)
            /\ input' = input
    /\ held' = Track(held, data')
    /\ UNCHANGED <<instance, created, invoked, counted>>

\* click on the delete button of the i-th rendered item
ClickDelete ==
    /\ dom
    /\ \E i \in 1..Len(rendered) :
        LET text == rendered[i].deleteBtn IN
        Commit(CE_execute(Now, Command(COMMANDS.REMOVE_TODO_BY_TEXT, text)),
               "deleteByText", "click", text)

\* blobs an earlier session, or anything else writing the key, left
\* behind: arrays of records, one with an empty text, and malformed ones
StartupBlobs ==
    {NoBlob,
     JSON_stringify(<<TodoItem("a")>>),
     JSON_stringify(<<TodoItem("b"), TodoItem("a")>>),
     JSON_stringify(<<TodoItem("a"), TodoItem("a")>>),
     JSON_stringify(<<TodoItem("")>>)} \cup MalformedBlobs

\* the page on its own: startup and the two click handlers
NextApp ==
    \/ DOMContentLoaded
    \/ TypeInput
    \/ ClickAdd
    \/ ClickDelete

SpecApp == InitWith(StartupBlobs) /\ [][NextApp]_vars

\* the page together with code that calls the store itself
NextPage ==
    \/ DOMContentLoaded
    \/ TypeInput
    \/ ClickAdd
    \/ ClickDelete
    \/ Add
    \/ DeleteByText
    \/ Load

SpecPage == Init /\ [][NextPage]_vars

\* ------------------------------------------------- a caller's read calls
Exists ==
    \E item \in Items :
        Commit(TodoList_exists(Now, item), "exists", "direct", item)

FindByText ==
    \E text \in Texts :
        Commit(TodoList_findByText(Now, text), "findByText", "direct", text)

\* two objects constructed apart: id tells them apart, text is the payload
Constructed(id, text) == [type |-> "TodoItem", text |-> text, id |-> id]
Objects == {Constructed(id, text) : id \in 1..2, text \in Texts}

\* a.equals(b)
Equals ==
    \E a, b \in Objects :
        Commit(Outcome(Now, IF equals(a, b) THEN RTrue ELSE RFalse, <<>>),
               "equals", "direct", <<a, b>>)

\* add(new TodoItem(t)); add(new TodoItem(t)); deleteByText(t): an error
\* raised by one call ends the sequence
addAddDelete(w, t) ==
    LET o1 == add(w, TodoItem(t)) IN
    IF o1.result = RThrow THEN Outcome(o1.w, <<RThrow>>, o1.log)
    ELSE LET o2 == add(o1.w, TodoItem(t)) IN
    IF o2.result = RThrow
    THEN Outcome(o2.w, <<o1.result, RThrow>>, o1.log \o o2.log)
    ELSE LET o3 == deleteByText(o2.w, t) IN
         Outcome(o3.w, <<o1.result, o2.result, o3.result>>,
                 o1.log \o o2.log \o o3.log)

AddAddDelete ==
    /\ Len(data) < MaxLen
    /\ \E t \in {x \in Texts : \A i \in 1..Len(data) :
                                   data[i] = NULL \/ data[i].text /= x} :
        Commit(addAddDelete(Now, t), "add;add;deleteByText", "direct", t)

\* ------------------------------------------------ persistence round trip
\* LocalStorage.save(); LocalStorage.load(); LocalStorage.save(): an error
\* raised by load ends the sequence. The result is [threw, first], first
\* being the blob the first save wrote.
saveLoadSave(w) ==
    LET s1 == LocalStorage_save(w)
        o == LocalStorage_load(s1.w)
        first == [threw |-> o.result = RThrow, first |-> s1.w.storage]
    IN IF o.result = RThrow THEN Outcome(o.w, first, o.log)
       ELSE Outcome(LocalStorage_save(o.w).w, first, o.log)

SaveLoadSave == Commit(saveLoadSave(Now), "save;load;save", "direct", NULL)

NextRoundTrip ==
    \/ Add
    \/ DeleteByText
    \/ ReplaceList
    \/ SaveLoadSave

SpecRoundTrip == Init /\ [][NextRoundTrip]_vars

\* ------------------------------------------- a caller's entry objects
\* entry.text = t on a stored object: add stores the caller's own object,
\* items and findByText return the stored objects, and text is a plain
\* writable field; no store method runs
SetEntryText ==
    \E i \in 1..Len(data), t \in Texts :
        /\ data[i] /= NULL
        /\ Commit(Outcome([Now EXCEPT !.data[i].text = t], RUndefined, <<>>),
                  "entry.text =", "caller", <<i, t>>)

NextEntry ==
    \/ Add
    \/ DeleteByText
    \/ FindByText
    \/ SetEntryText

SpecEntry == Init /\ [][NextEntry]_vars

\* ---------------------------------------------- a tally of invocations
\* how often obs was called in a pass
RECURSIVE Calls(_, _)
Calls(lg, obs) ==
    IF lg = <<>> THEN 0
    ELSE (IF Head(lg).obs = obs THEN 1 ELSE 0) + Calls(Tail(lg), obs)

\* add and deleteByText that returned true, and every replaceList call
Succeeded(o, op) ==
    \/ op \in {"add", "deleteByText"} /\ o.result = RTrue
    \/ op = "replaceList"

\* an operation followed by the tally: LocalStorage.save is registered at
\* module load and nothing here unregisters it
Tally(o, op, arg) ==
    /\ counted < MaxOps
    /\ invoked < MaxOps
    /\ Base(o, op, "direct", arg)
    /\ held' = Track(held, o.w.data)
    /\ invoked' = invoked + Calls(o.log, SAVE)
    /\ counted' = counted + (IF Succeeded(o, op) THEN 1 ELSE 0)
    /\ UNCHANGED <<instance, created, input>>

TalliedAdd ==
    /\ Len(data) < MaxLen
    /\ \E item \in Items : Tally(add(Now, item), "add", item)

TalliedDelete ==
    \E text \in Texts : Tally(deleteByText(Now, text), "deleteByText", text)

TalliedReplace ==
    \E list \in SeqsUpTo({PlainRecord("a"), ExtraRecord("b")}, MaxList) :
        Tally(replaceList(Now, ArrayArg(list)), "replaceList", list)

TalliedExists ==
    \E item \in Items : Tally(TodoList_exists(Now, item), "exists", item)

TalliedAddObserver ==
    \E obs \in {SPY, BAD} :
        Tally(Outcome(addObserver(Now, obs), RUndefined, <<>>),
              "addObserver", obs)

NextTally ==
    \/ TalliedAdd
    \/ TalliedDelete
    \/ TalliedReplace
    \/ TalliedExists
    \/ TalliedAddObserver

SpecTally == Init /\ [][NextTally]_vars

\* ------------------------------------------------- a caller's snapshots
\* const snapshot = todoList.items: the caller keeps what the getter returns
ReadItems ==
    /\ Base(Outcome(Now, RUndefined, <<>>), "items", "direct", NULL)
    /\ held' = TodoList_items(Now)
    /\ UNCHANGED <<instance, created, invoked, counted, input>>

\* Array.prototype.reverse
Reverse(s) == [i \in 1..Len(s) |-> s[Len(s) + 1 - i]]

\* the caller writes elems to the array it keeps; a write to the store's
\* own collection is a write to #data, and no store method runs
WriteHeld(elems, op, arg) ==
    /\ Base(Outcome([Now EXCEPT !.data = IF held.backing THEN elems ELSE @],
                    RUndefined, <<>>), op, "caller", arg)
    /\ held' = ArrayObject(held.backing, elems)
    /\ UNCHANGED <<instance, created, invoked, counted, input>>

ArrayOps == {"array.push", "array.pop", "array.reverse"}

\* snapshot.push(x), snapshot.pop(), snapshot.reverse()
ChangeHeld ==
    \/ /\ Len(held.elems) < MaxLen
       /\ \E item \in Items :
            WriteHeld(Append(held.elems, item), "array.push", item)
    \/ /\ held.elems /= <<>>
       /\ WriteHeld(SubSeq(held.elems, 1, Len(held.elems) - 1),
                    "array.pop", NULL)
    \/ /\ Len(held.elems) > 1
       /\ WriteHeld(Reverse(held.elems), "array.reverse", NULL)

NextSnapshot ==
    \/ Add
    \/ DeleteByText
    \/ ReplaceList
    \/ ReadItems
    \/ ChangeHeld

SpecSnapshot == Init /\ [][NextSnapshot]_vars

\* the store as a library: mutations, registrations and read calls
NextClient ==
    \/ Add
    \/ DeleteByText
    \/ AddObserver
    \/ RemoveObserver
    \/ Exists
    \/ FindByText
    \/ ReadItems
    \/ Equals
    \/ AddAddDelete

SpecClient == Init /\ [][NextClient]_vars

\* ------------------------------------------------------------ properties
\* some entry of d has text t (null holds no text)
HasText(d, t) == \E i \in 1..Len(d) : d[i] /= NULL /\ d[i].text = t

\* the texts of the records of a list
TextsOf(d) == {d[i].text : i \in {j \in 1..Len(d) : d[j] /= NULL}}

\* the last operation ran one complete notification pass
FullPass ==
    /\ Len(log) = Len(observers)
    /\ \A i \in 1..Len(log) : log[i].obs = observers[i]

Mutations == {"add", "deleteByText", "replaceList"}

\* C1: no two entries held by the store have the same text.
C1_UniqueTexts ==
    \A i, j \in 1..Len(data) :
        (i /= j /\ data[i] /= NULL /\ data[j] /= NULL)
            => data[i].text /= data[j].text

\* C2: after replaceList(L) the store holds exactly one entry per distinct
\* text occurring in L.
C2_ReplaceCollapses ==
    (call.op = "replaceList" /\ result = RUndefined)
        => /\ TextsOf(data) = TextsOf(call.arg)
           /\ Len(data) = Cardinality(TextsOf(call.arg))

\* C3: add(e) with e.text already the text of a stored entry returns false,
\* leaves the contents unchanged and invokes no observer.
C3_DuplicateAddRejected ==
    (call.op = "add" /\ call.arg /= NULL /\ HasText(prev, call.arg.text))
        => /\ result = RFalse
           /\ data = prev
           /\ log = <<>>

C3_Witness ==
    /\ call.op = "add"
    /\ call.arg /= NULL
    /\ HasText(prev, call.arg.text)
    /\ result = RFalse
    /\ Len(observers) >= 2

\* C4: add(e) with e.text not the text of any stored entry inserts e, runs
\* one notification pass and returns true.
C4_AddInserts ==
    (call.op = "add" /\ call.arg /= NULL /\ ~HasText(prev, call.arg.text))
        => /\ result = RTrue
           /\ data = Append(prev, call.arg)
           /\ FullPass

\* C5: deleteByText(t) with t the text of no stored entry returns false, does
\* not throw, leaves the contents unchanged and invokes no observer.
C5_DeleteAbsent ==
    (call.op = "deleteByText" /\ ~HasText(prev, call.arg))
        => /\ result = RFalse
           /\ data = prev
           /\ log = <<>>

\* C6: deleteByText(t) with t the text of a stored entry removes an entry with
\* text t, keeps every other entry, runs one notification pass and returns
\* true.
C6_DeletePresent ==
    (call.op = "deleteByText" /\ HasText(prev, call.arg))
        => /\ result = RTrue
           /\ \E i \in 1..Len(prev) :
                /\ prev[i].text = call.arg
                /\ data = RemoveAt(prev, i)
           /\ FullPass

\* C7: mutation, then notification, then return: every observer invoked by
\* add, deleteByText or replaceList reads the contents the operation leaves,
\* and when the operation returns every registered observer has been invoked.
C7_MutationThenNotify ==
    call.op \in Mutations
        => /\ \A i \in 1..Len(log) : log[i].seen = data
           /\ (result = RTrue \/ (call.op = "replaceList" /\ result = RUndefined))
                => (FullPass /\ \A i \in 1..Len(log) : ~log[i].threw)

C7_Witness ==
    /\ call.op = "add"
    /\ result = RTrue
    /\ data /= prev
    /\ Len(observers) >= 2
    /\ FullPass

\* C8: a callback that raises an error does not keep the callbacks registered
\* after it from running in the same pass.
C8_PassIsolated ==
    (call.op \in Mutations /\ log /= <<>>) => FullPass

\* C9: an observer raising an error does not abort the triggering mutation:
\* the operation completes normally and the error does not reach its caller.
C9_ObserverErrorIsolated ==
    (call.op \in Mutations /\ \E i \in 1..Len(log) : log[i].threw)
        => result /= RThrow

\* C10: add(null) raises an error in every store state, leaves the contents
\* unchanged with no notification, and the null is never stored.
C10_NullRejected ==
    /\ (call.op = "add" /\ call.arg = NULL)
          => (result = RThrow /\ data = prev /\ log = <<>>)
    /\ \A i \in 1..Len(data) : data[i] /= NULL

\* a blob that is not the JSON text of an array of records
Malformed(blob) ==
    /\ blob /= NoBlob
    /\ blob /= <<>>
    /\ LET p == JSON_parse(blob) IN
       \/ ~p.ok
       \/ ~p.isArray
       \/ \E i \in 1..Len(p.value) : p.value[i] = NULL

\* C11: LocalStorage.load of a malformed blob leaves the store contents as
\* they were and raises no error.
C11_MalformedBlobIgnored ==
    (call.op = "load" /\ Malformed(call.arg))
        => (data = prev /\ result /= RThrow)

Range(seq) == {seq[i] : i \in 1..Len(seq)}

\* the stored blob parses to one record per entry of the store, carrying the
\* entry's text and nothing else
SavedSnapshot ==
    /\ storage /= NoBlob
    /\ LET p == JSON_parse(storage) IN
       /\ p.ok
       /\ p.isArray
       /\ Len(p.value) = Len(data)
       /\ \A i \in 1..Len(data) :
            IF data[i] = NULL THEN p.value[i] = NULL
            ELSE p.value[i] = PlainRecord(data[i].text)

\* the last operation changed the store and returned
MutationReturned ==
    \/ call.op \in {"add", "deleteByText"} /\ result = RTrue
    \/ call.op = "replaceList" /\ result = RUndefined
    \/ call.op = "load" /\ result = RUndefined
        /\ call.arg /= NoBlob /\ call.arg /= <<>>

\* C12: with LocalStorage.save registered, after every store mutation that
\* has returned the stored blob is the serialization of the full current
\* snapshot.
C12_SaveAfterMutation ==
    (SAVE \in Range(observers) /\ MutationReturned) => SavedSnapshot

C12_Witness ==
    /\ SAVE \in Range(observers)
    /\ call.op = "deleteByText"
    /\ result = RTrue
    /\ Len(data) >= 1
    /\ SavedSnapshot

\* C13: exactly one TodoList instance exists, TodoList.instance is that
\* object, and every later constructor call throws.
C13_Singleton ==
    /\ created = 1
    /\ instance = TheInstance
    /\ (call.op = "new TodoList" => result = RThrow)

C13_Witness ==
    /\ call.op = "new TodoList"
    /\ result = RThrow
    /\ created = 1

\* C14: every replaceList(L) runs exactly one notification pass in which each
\* registered observer is invoked once, whatever the length of L.
C14_ReplaceOnePass ==
    (call.op = "replaceList" /\ NULL \notin Range(call.arg)) => FullPass

\* C15: after replaceList(L) the store holds only fresh TodoItems built from
\* the text fields of L's records: nothing from before the call remains and
\* no other field is carried over.
C15_ReplaceRebuilds ==
    call.op = "replaceList"
        => /\ Len(data) <= Len(call.arg)
           /\ \A i \in 1..Len(data) :
                /\ call.arg[i] /= NULL
                /\ data[i] = TodoItem(call.arg[i].text)
           /\ (Len(data) < Len(call.arg) => call.arg[Len(data) + 1] = NULL)

C15_Witness ==
    /\ call.op = "replaceList"
    /\ result = RUndefined
    /\ HasText(prev, "a")
    /\ ~HasText(data, "a")
    /\ ExtraRecord("b") \in Range(call.arg)
    /\ TodoItem("b") \in Range(data)

\* C16: registering a callback that is already registered changes nothing,
\* so the observer set never holds a callback twice and no pass invokes a
\* callback twice.
C16_IdempotentRegistration ==
    /\ \A i, j \in 1..Len(observers) : observers[i] = observers[j] => i = j
    /\ \A i, j \in 1..Len(log) : log[i].obs = log[j].obs => i = j
    /\ (call.op = "addObserver" /\ call.arg \in Range(prevObs))
          => observers = prevObs

C16_Witness ==
    /\ call.op = "addObserver"
    /\ call.arg \in Range(prevObs)
    /\ Len(prevObs) >= 2
    /\ observers = prevObs

\* C18: removeObserver(cb) takes cb, and only cb, out of the observer set and
\* is a no-op for an unregistered cb; a pass invokes registered callbacks only.
C18_RemoveObserver ==
    /\ call.op = "removeObserver"
          => /\ observers = SelectSeq(prevObs, LAMBDA o : o /= call.arg)
             /\ result = RUndefined
             /\ data = prev
             /\ log = <<>>
    /\ \A i \in 1..Len(log) : log[i].obs \in Range(observers)

C18_Witness ==
    /\ call.op = "removeObserver"
    /\ call.arg \in Range(prevObs)
    /\ call.arg \notin Range(observers)
    /\ Len(observers) >= 1

\* what the TodoList method of the last command does on the state the
\* command started in (storage is left or rewritten to the same value)
DirectOutcome ==
    LET before == World(prev, prevObs, storage, rendered, dom) IN
    IF call.op = "add" THEN add(before, call.arg)
    ELSE deleteByText(before, call.arg)

\* C19: CE.execute of ADD_TODO / REMOVE_TODO_BY_TEXT returns what
\* TodoList.add / deleteByText returns and has the same effect.
C19_DispatchEquivalent ==
    (call.via = "CE" /\ call.op \in {"add", "deleteByText"})
        => /\ result = DirectOutcome.result
           /\ data = DirectOutcome.w.data
           /\ observers = DirectOutcome.w.observers
           /\ storage = DirectOutcome.w.storage
           /\ log = DirectOutcome.log

C19_Witness ==
    /\ call.via = "CE"
    /\ call.op = "add"
    /\ result = RTrue
    /\ log /= <<>>

\* C20: CE.execute of UPDATE_TODO, CLEAR_TODO or an unknown type returns
\* undefined and changes nothing.
C20_OtherCommandsNoop ==
    call.op = "noop"
        => /\ result = RUndefined
           /\ data = prev
           /\ observers = prevObs
           /\ log = <<>>

C20_Witness ==
    /\ call.op = "noop"
    /\ call.arg = COMMANDS.CLEAR_TODO
    /\ data /= <<>>
    /\ observers /= <<>>

\* the callbacks invoked by the last operation, in order
LogObs == [i \in 1..Len(log) |-> log[i].obs]

\* C17: a pass invokes each callback registered when it starts exactly once,
\* in registration order, also when callbacks register or unregister
\* observers during the pass.
C17_PassCoversRegistered ==
    (call.op \in {"add", "deleteByText"} /\ data /= prev)
        => SelectSeq(LogObs, LAMBDA o : o \in Range(prevObs)) = prevObs

\* C21: TodoList.items hands out an array of its own on every read: a
\* caller pushing to, popping from or reversing the array it keeps leaves
\* the store as it was, and add, deleteByText and replaceList leave the
\* array the caller keeps as it was.
C21_SnapshotIndependent ==
    [][/\ call'.op \in ArrayOps => data' = data
       /\ call'.op \in Mutations => held' = held]_vars

\* the caller has pushed onto a snapshot of a store that holds an entry,
\* and the two now differ
C21_Witness ==
    /\ call.op = "array.push"
    /\ data /= <<>>
    /\ Len(held.elems) > Len(data)
    /\ data = prev

\* C22: whatever the store holds, exists(e) answers true exactly when some
\* stored entry has the text of e, and it answers true exactly when
\* findByText(e.text) returns an entry, which then has that text.
C22_ExistsIffFound ==
    call.op = "exists" =>
        LET t == call.arg.text
            f == findByText(Now, t)
        IN /\ result = (IF HasText(prev, t) THEN RTrue ELSE RFalse)
           /\ ~f.threw
           /\ (result = RTrue) <=> (f.index /= 0)
           /\ f.index /= 0 => data[f.index].text = t

ReadOps == {"exists", "findByText", "items"}

\* C23: findByText, exists and a read of items leave the store's contents
\* and the observer set as they were and call no observer, whether the key
\* asked for is held or not.
C23_ReadsArePure ==
    call.op \in ReadOps =>
        /\ data = prev
        /\ observers = prevObs
        /\ log = <<>>

\* a lookup of a text the store holds, with two observers registered, and
\* one of a text it does not hold
C23_Witness ==
    /\ call.op = "findByText"
    /\ Len(observers) > 1
    /\ HasText(data, "a")
    /\ ~HasText(data, "b")
    /\ result = (IF call.arg = "a" THEN Found(TodoItem("a")) ELSE NotFound)

\* C24: a.equals(b) is true exactly when the two texts are equal, also for
\* two objects constructed apart, and it is reflexive, symmetric and
\* transitive.
C24_EqualsByText ==
    /\ call.op = "equals" =>
            result = (IF call.arg[1].text = call.arg[2].text
                      THEN RTrue ELSE RFalse)
    /\ \A a, b, c \in Objects :
            /\ equals(a, a)
            /\ equals(a, b) => equals(b, a)
            /\ (equals(a, b) /\ equals(b, c)) => equals(a, c)

\* two objects constructed apart with the same text compared equal
C24_Witness ==
    /\ call.op = "equals"
    /\ call.arg[1] /= call.arg[2]
    /\ call.arg[1].text = call.arg[2].text
    /\ result = RTrue

\* C27: for a text t the store does not hold, add(TodoItem(t)) returns
\* true, a second add(TodoItem(t)) returns false, deleteByText(t) returns
\* true, and the store then holds what it held before the first add.
C27_AddAddDeleteRestores ==
    call.op = "add;add;deleteByText" =>
        /\ result = <<RTrue, RFalse, RTrue>>
        /\ data = prev

\* C25: with nothing stored under the key, LocalStorage.load raises no
\* error, leaves the store as it was, calls no observer and writes nothing
\* to storage.
C25_LoadWithoutBlob ==
    (call.op = "load" /\ call.arg = NoBlob) =>
        /\ result = RUndefined
        /\ data = prev
        /\ observers = prevObs
        /\ log = <<>>
        /\ storage = NoBlob

\* a load with nothing stored while the store holds an entry and has an
\* observer registered
C25_Witness ==
    /\ call.op = "load"
    /\ call.arg = NoBlob
    /\ data /= <<>>
    /\ observers /= <<>>

\* C28: once deleteByText(t) has returned true the store holds no entry
\* with text t, also in stores built by replaceList or load.
C28_DeletedTextGone ==
    (call.op = "deleteByText" /\ result = RTrue) => ~HasText(data, call.arg)

\* C26: with renderTodoList registered, after every notification pass the
\* rendered list has exactly one item per entry of items, in the same
\* order, each showing the entry's text with a delete control keyed by
\* that text, and nothing left over from an earlier state.
C26_RenderedMatchesItems ==
    (RENDER \in Range(observers) /\ log /= <<>>) =>
        /\ Len(rendered) = Len(data)
        /\ \A i \in 1..Len(data) :
            /\ data[i] /= NULL
            /\ rendered[i] = Li(data[i])

\* C29: an observer that stays registered has been called as many times as
\* there were successful mutations (adds that returned true, deleteByText
\* calls that returned true, replaceList calls); calls that return false
\* and read calls add nothing.
C29_InvocationsEqualMutations == invoked = counted

\* C30: the texts the store holds change only through add, deleteByText
\* and replaceList; nothing a caller does to an entry object it holds
\* changes what the store contains or gives two entries the same text.
C30_OnlyStoreChangesTexts ==
    /\ call.op \notin Mutations => TextsOf(data) = TextsOf(prev)
    /\ \A i, j \in 1..Len(data) :
        (i /= j /\ data[i] /= NULL /\ data[j] /= NULL)
            => data[i].text /= data[j].text

\* C31: in every state the page reaches through the add handler, the
\* delete handler and the load at startup, every entry of the store has a
\* non-empty string as its text, and the add handler issues ADD_TODO only
\* when the trimmed input is not empty.
C31_TextsNonEmpty ==
    /\ \A i \in 1..Len(data) : data[i] /= NULL /\ data[i].text /= ""
    /\ (call.via = "click" /\ call.op = "add") => call.arg.text /= ""

\* the texts of a list of records, in order
TextSeq(d) == [i \in 1..Len(d) |-> d[i].text]

\* a blob that is a JSON array of records
WellFormed(blob) ==
    /\ blob /= NoBlob
    /\ LET p == JSON_parse(blob) IN
       /\ p.ok
       /\ p.isArray
       /\ \A i \in 1..Len(p.value) : p.value[i] /= NULL

\* C32: LocalStorage.save is registered from module load on, and
\* renderTodoList is registered only once DOM.todoList is cached and is
\* never called before that; when startup has run on a well-formed blob,
\* the store, the rendered list and the stored blob hold exactly the texts
\* of the blob's records.
C32_StartupOrdering ==
    /\ observers /= <<>> /\ observers[1] = SAVE
    /\ RENDER \in Range(observers) => dom
    /\ RENDER \in Range(LogObs) => dom
    /\ (call.via = "startup" /\ WellFormed(call.arg)) =>
        LET texts == TextSeq(JSON_parse(call.arg).value) IN
        /\ result = RUndefined
        /\ TextSeq(data) = texts
        /\ rendered = [i \in 1..Len(texts) |->
                           [span |-> texts[i], deleteBtn |-> texts[i]]]
        /\ WellFormed(storage)
        /\ TextSeq(JSON_parse(storage).value) = texts

\* startup has loaded a blob of two records
C32_Witness ==
    /\ call.via = "startup"
    /\ WellFormed(call.arg)
    /\ Len(data) = 2
    /\ Len(rendered) = 2
    /\ LogObs = <<SAVE, RENDER>>

\* C34: the observers the page registers, LocalStorage.save and
\* renderTodoList, start no store operation: during a pass each of them
\* runs once, the observer set stays as it is, and the store holds at the
\* end of the pass what it held when each observer was called.
C34_NoNestedOperation ==
    log /= <<>> =>
        /\ LogObs = observers
        /\ Range(LogObs) \subseteq {SAVE, RENDER}
        /\ \A i \in 1..Len(log) : log[i].seen = data /\ ~log[i].threw
        /\ call.via = "click" => observers = prevObs

\* a click on the add button has run a pass over both observers on a
\* store of two entries
C34_Witness ==
    /\ call.via = "click"
    /\ call.op = "add"
    /\ LogObs = <<SAVE, RENDER>>
    /\ Len(data) = 2
    /\ Len(prev) = 1

\* C33: whatever the store holds, LocalStorage.save followed by
\* LocalStorage.load gives a store with the same sequence of texts, and a
\* further save writes the blob the first save wrote.
C33_RoundTrip ==
    call.op = "save;load;save" =>
        /\ ~result.threw
        /\ Len(data) = Len(prev)
        /\ \A i \in 1..Len(data) :
            /\ data[i] /= NULL
            /\ prev[i] /= NULL
            /\ data[i].text = prev[i].text
        /\ storage = result.first

====
